---- MODULE Spec2Model ----
(***************************************************************************)
(* Model of imagenet/imagenet_train.py: the gradient accumulation wrapper, *)
(* the CustomSGLD optimizer, the learning-rate schedule, the parallel      *)
(* train step and the train_and_eval loop with checkpoint save / restore.  *)
(*                                                                         *)
(* Numbers are exact rationals <<n, d>> (d > 0, lowest terms).  A          *)
(* parameter value is kept symbolically as the sequence of SGLD updates    *)
(* applied to its initial value, each update being the triple              *)
(* (step_size, g, subkey) that determines  p -= N*step_size*g +            *)
(* normal(subkey)*sqrt(2*step_size).                                       *)
(***************************************************************************)
EXTENDS Integers, Sequences, FiniteSets, TLC

\* ---------------------------------------------------------------- bounds
MaxAcc == 3
MaxEval == 3
MaxCalls == 4
MaxEpochs == 3

\* ------------------------------------------------------ program constants
train_device_batch_size == 128
key42 == 42
LrDivisor == 256

Devices == {"d0", "d1"}
train_vars == <<"w", "b">>
NumVars == Len(train_vars)
VarIdx == 1..NumVars

\* ---------------------------------------------------- exact rationals
RECURSIVE GCD(_, _)
GCD(a, b) == IF b = 0 THEN a ELSE GCD(b, a % b)

Abs(x) == IF x < 0 THEN -x ELSE x

Rat(n, d) ==
    LET s == IF d < 0 THEN -1 ELSE 1
        g == GCD(Abs(n), Abs(d))
    IN  <<(s * n) \div g, (s * d) \div g>>

RInt(n) == <<n, 1>>
Zero == <<0, 1>>
One == <<1, 1>>
RAdd(a, b) == Rat(a[1] * b[2] + b[1] * a[2], a[2] * b[2])
RSub(a, b) == Rat(a[1] * b[2] - b[1] * a[2], a[2] * b[2])
RMul(a, b) == Rat(a[1] * b[1], a[2] * b[2])
RDiv(a, b) == Rat(a[1] * b[2], a[2] * b[1])
RLess(a, b) == a[1] * b[2] < b[1] * a[2]
RLeq(a, b) == a[1] * b[2] <= b[1] * a[2]
RMin(a, b) == IF RLess(b, a) THEN b ELSE a
\* int(x) for x >= 0
RTrunc(a) == a[1] \div a[2]

\* cos(pi * x) for a rational x >= 0, by Bhaskara's rational approximation
\* cos(pi*x) ~ (1 - 4x^2) / (1 + x^2) on [0, 1/2], extended by the symmetries
\* cos(pi*(1-x)) = -cos(pi*x) and cos(pi*(2-x)) = cos(pi*x).  It is exact
\* wherever cos(pi*x) is rational: x = 0, 1/3, 1/2, 2/3, 1.
CosPiQuarter(x) ==
    Rat(x[2] * x[2] - 4 * x[1] * x[1], x[2] * x[2] + x[1] * x[1])

CosPiHalf(x) ==
    IF RLeq(x, <<1, 2>>) THEN CosPiQuarter(x)
    ELSE RSub(Zero, CosPiQuarter(RSub(One, x)))

CosPi(x) ==
    LET r == Rat(x[1] % (2 * x[2]), x[2])
    IN  IF RLeq(r, One) THEN CosPiHalf(r) ELSE CosPiHalf(RSub(RInt(2), r))

\* ------------------------------------------------------------------ state
VARIABLES
    FLAGS,        \* the command-line flags the code reads
    train_split,  \* the dataset split: [num_examples]
    pc,           \* position of the process: "new", "constructed", "train",
                  \* "done", "error"; "harness" / "lr" in the unit harnesses
    all_vars,     \* per device: [params, accum] (Experiment.all_vars replicated)
    rng,          \* CustomSGLD.rng, a plain attribute of the optimizer object
    start_step,   \* the step checkpoint.restore returned
    big_step,     \* outer loop variable of train_and_eval
    cur_step,     \* inner loop variable: the last virtual step run
    cur_epoch,    \* the fractional epoch handed to train_op
    monitors,     \* <<>> or <<[learning_rate, epoch]>> returned by train_op
    checkpoint,   \* the checkpoints on disk, oldest first: [step, vars]
    evals,        \* this process's evaluations: [step, updates, dp_steps]
    calls         \* harness only: the accumulator calls made, [grads, apply_updates]

vars == <<FLAGS, train_split, pc, all_vars, rng, start_step, big_step,
          cur_step, cur_epoch, monitors, checkpoint, evals, calls>>

\* ------------------------------------------------- Experiment's constants
total_num_replicas == Cardinality(Devices)
total_batch_size == train_device_batch_size * total_num_replicas

base_learning_rate ==
    RDiv(RMul(FLAGS.base_learning_rate,
              RInt(total_batch_size * FLAGS.grad_acc_steps)), RInt(LrDivisor))

steps_per_epoch == Rat(train_split.num_examples, total_batch_size)
total_train_steps == RTrunc(RMul(steps_per_epoch, FLAGS.num_train_epochs))

\* --------------------------------------------------- learning-rate schedule
SupportedSchedules == {"cos", "fixed"}

lr_multiplier_full_decay(epoch) ==
    LET w == FLAGS.lr_warmup_epochs
    IN  IF FLAGS.lr_schedule = "cos"
        THEN IF RLess(epoch, w) THEN RDiv(epoch, w)
             ELSE RMul(<<1, 2>>,
                       RAdd(One, CosPi(RDiv(RSub(epoch, w),
                                            FLAGS.num_train_epochs))))
        ELSE IF RLess(epoch, w) THEN RDiv(epoch, w) ELSE One

\* jn.where picks one of the two branch values; the warmup quotient is only
\* looked at where epoch < lr_warmup_epochs, which needs lr_warmup_epochs > 0.
lr_multiplier(epoch) ==
    LET w == FLAGS.lr_warmup_epochs
        cos_decay_epochs == RSub(FLAGS.num_train_epochs, w)
    IN  IF FLAGS.lr_schedule = "cos"
        THEN IF RLess(epoch, w) THEN RDiv(epoch, w)
             ELSE RMul(<<1, 2>>,
                       RAdd(One, CosPi(RDiv(RSub(epoch, w), cos_decay_epochs))))
        ELSE IF RLess(epoch, w) THEN RDiv(epoch, w) ELSE One

learning_rate_unclamped(epoch) ==
    RMul(base_learning_rate, lr_multiplier(epoch))

learning_rate(epoch) ==
    RMul(base_learning_rate,
         lr_multiplier(RMin(epoch, FLAGS.num_train_epochs)))

\* ------------------------------------------------------------ CustomSGLD
\* jax.random.split: the two keys derived from a key are distinct from each
\* other and from every key derived along another path (a binary tree).
split(key) == [new_key |-> 2 * key, subkey |-> 2 * key + 1]

\* One call of the optimizer on one replica's variables v with the stream key
\* `key`: for each (g, p) in order a fresh subkey is split off and p is
\* updated.  Returns the new parameters and the key left in self.rng.
RECURSIVE SGLDLoop(_, _, _, _, _)
SGLDLoop(i, params, key, step_size, gs) ==
    IF i > Len(gs) THEN [params |-> params, rng |-> key]
    ELSE SGLDLoop(i + 1,
                  [params EXCEPT ![i] =
                      Append(@, [step_size |-> step_size, g |-> gs[i],
                                 subkey |-> split(key).subkey])],
                  split(key).new_key, step_size, gs)

CustomSGLD(v, key, step_size, gs) ==
    LET r == SGLDLoop(1, v.params, key, step_size, gs)
    IN  [params |-> r.params, accum |-> v.accum, rng |-> r.rng]

\* ------------------------------------ GradientAccumulationOptimizerWrapper
scaler == <<1, FLAGS.grad_acc_steps>>
ZeroBuffers == [i \in VarIdx |-> Zero]

AccumulateOverwrite(accum, gs) == [i \in VarIdx |-> RMul(gs[i], scaler)]

Accumulate(accum, gs) == [i \in VarIdx |-> RAdd(accum[i], RMul(gs[i], scaler))]

WrapperResetFirst(v, key, lr, gs, apply_updates) ==
    LET acc == Accumulate(v.accum, gs)
    IN  IF apply_updates
        THEN [CustomSGLD(v, key, lr, ZeroBuffers) EXCEPT !.accum = ZeroBuffers]
        ELSE [params |-> v.params, accum |-> acc, rng |-> key]

GradientAccumulationOptimizerWrapper(v, key, lr, gs, apply_updates) ==
    LET acc == Accumulate(v.accum, gs)
    IN  IF apply_updates
        THEN [CustomSGLD(v, key, lr, acc) EXCEPT !.accum = ZeroBuffers]
        ELSE [params |-> v.params, accum |-> acc, rng |-> key]

\* ---------------------------------------------------------------- train_op
RECURSIVE SumOver(_, _, _)
SumOver(S, gl, i) ==
    IF S = {} THEN Zero
    ELSE LET d == CHOOSE x \in S : TRUE
         IN  RAdd(gl[d][i], SumOver(S \ {d}, gl, i))

pmean_local(gl, d) == gl[d]

\* objax.functional.parallel.pmean: what device d holds after the reduction
pmean(gl, d) ==
    [i \in VarIdx |-> RDiv(SumOver(Devices, gl, i), RInt(Cardinality(Devices)))]

OptimizerCall(v, key, lr, gs, apply_updates) ==
    IF FLAGS.grad_acc_steps > 1
    THEN GradientAccumulationOptimizerWrapper(v, key, lr, gs, apply_updates)
    ELSE CustomSGLD(v, key, lr, gs)

\* every replica runs the same program on its own copy of all_vars; rng is a
\* plain attribute, so every replica reads the same key
train_op(gl, epoch, apply_updates) ==
    LET lr == learning_rate(epoch)
        out == [d \in Devices |->
                   OptimizerCall(all_vars[d], rng, lr, pmean(gl, d), apply_updates)]
    IN  /\ all_vars' = [d \in Devices |->
                           [params |-> out[d].params, accum |-> out[d].accum]]
        /\ rng' = out[CHOOSE d \in Devices : TRUE].rng
        /\ monitors' = <<[learning_rate |-> lr, epoch |-> epoch]>>

\* ---------------------------------------------------------- the inputs
\* gradient lists one device can compute in the training run
GradInputs == {<<RInt(1), RInt(2)>>, <<RInt(-1), Zero>>}
\* gradient lists fed to the accumulator in its unit harness
AccGradInputs == [VarIdx -> {RInt(-1), RInt(2)}]
ExampleCounts == {384, 512}

DefaultFlags ==
    [grad_acc_steps |-> 1, eval_every_n_steps |-> 1,
     num_train_epochs |-> RInt(2), base_learning_rate |-> RInt(2),
     lr_warmup_epochs |-> One, lr_schedule |-> "cos", optimizer |-> "sgld",
     disable_dp |-> FALSE, model_dir |-> "/tmp/model_dir"]

FreshVars(k) ==
    [d \in Devices |->
        [params |-> [i \in VarIdx |-> <<>>],
         accum |-> IF k > 1 THEN ZeroBuffers ELSE <<>>]]

\* ------------------------------------------------------- the training run
Init ==
    /\ FLAGS \in {[DefaultFlags EXCEPT !.grad_acc_steps = k,
                                       !.eval_every_n_steps = e,
                                       !.lr_schedule = s,
                                       !.optimizer = o,
                                       !.disable_dp = dp,
                                       !.model_dir = md] :
                    k \in 0..MaxAcc, e \in 1..MaxEval,
                    s \in {"cos", "fixed", "linear"},
                    o \in {"sgld", "adagrad"}, dp \in BOOLEAN,
                    md \in {"", "/tmp/model_dir"}}
    /\ train_split \in {[num_examples |-> n] : n \in ExampleCounts}
    /\ pc = "new"
    /\ all_vars = FreshVars(1)
    /\ rng = key42
    /\ start_step = 0
    /\ big_step = 0
    /\ cur_step = 0
    /\ cur_epoch = Zero
    /\ monitors = <<>>
    /\ checkpoint = <<>>
    /\ evals = <<>>
    /\ calls = <<>>

save_summaries == FLAGS.model_dir # ""

\* the optimizer names __init__ accepts; the runs modelled here use "sgld",
\* the optimizer whose code is CustomSGLD above
SupportedOptimizers == {"momentum", "adam", "sgld", "psgld"}

\* Experiment.__init__: the optimizer name and grad_acc_steps are validated,
\* the schedule name is not looked at
Construct ==
    /\ pc = "new"
    /\ IF FLAGS.optimizer \notin SupportedOptimizers \/ FLAGS.grad_acc_steps < 1
       THEN /\ pc' = "error"
            /\ UNCHANGED <<all_vars, rng>>
       ELSE /\ pc' = "constructed"
            /\ all_vars' = FreshVars(FLAGS.grad_acc_steps)
            /\ rng' = key42
    /\ UNCHANGED <<FLAGS, train_split, start_step, big_step, cur_step,
                   cur_epoch, monitors, checkpoint, evals, calls>>

\* train_and_eval up to the loop: checkpoint.restore(all_vars) loads the
\* latest checkpoint, if any, into all_vars and returns its step
StartTraining ==
    /\ pc = "constructed"
    /\ LET found == save_summaries /\ checkpoint # <<>>
           s0 == IF found THEN checkpoint[1].step ELSE 0
       IN  /\ start_step' = s0
           /\ big_step' = s0
           /\ cur_step' = s0
           /\ all_vars' = IF found THEN [d \in Devices |-> checkpoint[1].vars]
                          ELSE all_vars
           /\ pc' = IF s0 < total_train_steps THEN "train" ELSE "done"
    /\ cur_epoch' = Zero
    /\ UNCHANGED <<FLAGS, train_split, rng, monitors, checkpoint, evals,
                   calls>>

next_update_step_raw(s) == s

next_update_step(s) ==
    ((s + FLAGS.grad_acc_steps - 1) \div FLAGS.grad_acc_steps)
        * FLAGS.grad_acc_steps

apply_updates_always(s) == TRUE

apply_updates_at(s) == (s % FLAGS.grad_acc_steps) = 0

\* one iteration of the inner loop: one virtual step through train_op_parallel
TrainStep ==
    /\ pc = "train"
    /\ cur_step < big_step + FLAGS.eval_every_n_steps
    /\ \E gl \in [Devices -> GradInputs] :
          LET s == cur_step + 1
              epoch == RDiv(RInt(next_update_step(s)), steps_per_epoch)
          IN  /\ cur_step' = s
              /\ cur_epoch' = epoch
              /\ IF FLAGS.lr_schedule \in SupportedSchedules
                 THEN /\ train_op(gl, epoch, apply_updates_at(s))
                      /\ pc' = pc
                 ELSE /\ pc' = "error"
                      /\ UNCHANGED <<all_vars, rng, monitors>>
    /\ UNCHANGED <<FLAGS, train_split, start_step, big_step, checkpoint, evals,
                   calls>>

\* the value of the variables on the host once the replicate() block is left
HostVars == all_vars[CHOOSE d \in Devices : TRUE]
NumUpdates == Len(HostVars.params[1])

\* after the inner loop: run_eval, analyze_dp, checkpoint.save, next big_step
EvalAndSave ==
    /\ pc = "train"
    /\ cur_step = big_step + FLAGS.eval_every_n_steps
    /\ evals' = Append(evals,
                  [step |-> cur_step, updates |-> NumUpdates,
                   dp_steps |-> IF FLAGS.disable_dp THEN <<>>
                                ELSE <<cur_step \div FLAGS.grad_acc_steps>>])
    /\ checkpoint' = IF save_summaries
                     THEN <<[step |-> cur_step, vars |-> HostVars]>>
                     ELSE checkpoint
    /\ all_vars' = [d \in Devices |-> HostVars]
    /\ big_step' = big_step + FLAGS.eval_every_n_steps
    /\ pc' = IF big_step' < total_train_steps THEN "train" ELSE "done"
    /\ UNCHANGED <<FLAGS, train_split, rng, start_step, cur_step,
                   cur_epoch, monitors, calls>>

\* the process is killed and started again with the same flags: memory is
\* lost, the checkpoint directory is kept
Restart ==
    /\ pc \in {"constructed", "train", "done", "error"}
    /\ pc' = "new"
    /\ all_vars' = FreshVars(1)
    /\ rng' = key42
    /\ start_step' = 0
    /\ big_step' = 0
    /\ cur_step' = 0
    /\ cur_epoch' = Zero
    /\ monitors' = <<>>
    /\ evals' = <<>>
    /\ UNCHANGED <<FLAGS, train_split, checkpoint, calls>>

Next == Construct \/ StartTraining \/ TrainStep \/ EvalAndSave \/ Restart

Spec == Init /\ [][Next]_vars

\* ------------------------------------------- the accumulator on its own
\* GradientAccumulationOptimizerWrapper(CustomSGLD, 1/k) called directly,
\* with any gradient lists and any apply_updates flags
InitAcc ==
    /\ FLAGS \in {[DefaultFlags EXCEPT !.grad_acc_steps = k] : k \in 2..MaxAcc}
    /\ train_split = [num_examples |-> 384]
    /\ pc = "harness"
    /\ all_vars = FreshVars(FLAGS.grad_acc_steps)
    /\ rng = key42
    /\ start_step = 0
    /\ big_step = 0
    /\ cur_step = 0
    /\ cur_epoch = Zero
    /\ monitors = <<>>
    /\ checkpoint = <<>>
    /\ evals = <<>>
    /\ calls = <<>>

AccCall ==
    /\ pc = "harness"
    /\ Len(calls) < MaxCalls
    /\ \E gs \in AccGradInputs, apply_updates \in BOOLEAN :
          LET out == [d \in Devices |->
                         GradientAccumulationOptimizerWrapper(
                             all_vars[d], rng, base_learning_rate, gs,
                             apply_updates)]
          IN  /\ all_vars' = [d \in Devices |->
                                 [params |-> out[d].params,
                                  accum |-> out[d].accum]]
              /\ rng' = out[CHOOSE d \in Devices : TRUE].rng
              /\ calls' = Append(calls, [grads |-> gs,
                                         apply_updates |-> apply_updates])
    /\ UNCHANGED <<FLAGS, train_split, pc, start_step, big_step, cur_step,
                   cur_epoch, monitors, checkpoint, evals>>

SpecAcc == InitAcc /\ [][AccCall]_vars

\* ------------------------------------- the learning-rate schedule on its own
\* learning_rate(epoch) for the supported schedules, num_train_epochs in
\* 1..MaxEpochs, lr_warmup_epochs in [0, num_train_epochs) and epochs up to
\* num_train_epochs + 1, all in steps of 1/2
InitLR ==
    /\ FLAGS \in {[DefaultFlags EXCEPT !.lr_schedule = s,
                                       !.num_train_epochs = RInt(n),
                                       !.lr_warmup_epochs = Rat(w, 2)] :
                    s \in SupportedSchedules, n \in 1..MaxEpochs,
                    w \in 0..(2 * MaxEpochs)}
    /\ RLess(FLAGS.lr_warmup_epochs, FLAGS.num_train_epochs)
    /\ train_split = [num_examples |-> 384]
    /\ pc = "lr"
    /\ all_vars = FreshVars(1)
    /\ rng = key42
    /\ start_step = 0
    /\ big_step = 0
    /\ cur_step = 0
    /\ cur_epoch = Zero
    /\ monitors = <<>>
    /\ checkpoint = <<>>
    /\ evals = <<>>
    /\ calls = <<>>

EvalLR ==
    /\ pc = "lr"
    /\ \E e \in 0..(2 * (MaxEpochs + 1)) :
          LET epoch == Rat(e, 2)
          IN  /\ RLeq(epoch, RAdd(FLAGS.num_train_epochs, One))
              /\ cur_epoch' = epoch
              /\ monitors' = <<[learning_rate |-> learning_rate(epoch),
                                epoch |-> epoch]>>
    /\ UNCHANGED <<FLAGS, train_split, pc, all_vars, rng, start_step, big_step,
                   cur_step, checkpoint, evals, calls>>

SpecLR == InitLR /\ [][EvalLR]_vars

\* ================================================================ claims
Params(d, i) == all_vars[d].params[i]
LastUpdate(d, i) == Params(d, i)[Len(Params(d, i))]

\* ---- C1 (SpecAcc)
RECURSIVE SumOfCalls(_, _)
SumOfCalls(n, i) ==
    IF n = 0 THEN Zero ELSE RAdd(calls[n].grads[i], SumOfCalls(n - 1, i))

MeanOfCalls(k) == [i \in VarIdx |-> RDiv(SumOfCalls(k, i), RInt(k))]

\* the first k calls were made with apply_updates false, ..., false, true
FirstCycleDone ==
    /\ Len(calls) = FLAGS.grad_acc_steps
    /\ \A j \in 1..Len(calls) :
          calls[j].apply_updates = (j = FLAGS.grad_acc_steps)

\* C1: accumulation equivalence.  After k calls of the wrapper (scaler 1/k,
\* buffers zero at the start) with apply_updates true on the k-th call only,
\* the wrapped optimizer has been invoked exactly once, and the parameters
\* and the RNG key are those one direct call of the wrapped optimizer with
\* the mean of the k gradient lists leaves behind.
AccumulationEquivalence ==
    FirstCycleDone =>
        LET k == FLAGS.grad_acc_steps
            direct == [d \in Devices |->
                          CustomSGLD(FreshVars(k)[d], key42,
                                     base_learning_rate, MeanOfCalls(k))]
        IN  \A d \in Devices :
               /\ \A i \in VarIdx :
                     /\ Len(Params(d, i)) = 1
                     /\ Params(d, i)[1].g = MeanOfCalls(k)[i]
               /\ all_vars[d].params = direct[d].params
               /\ rng = direct[d].rng

WitnessAccumulationEquivalence ==
    /\ FirstCycleDone
    /\ FLAGS.grad_acc_steps = 3
    /\ calls[1].grads # calls[2].grads
    /\ calls[2].grads # calls[3].grads
    /\ \A d \in Devices : Params(d, 1)[1].g = Zero /\ Params(d, 2)[1].g = One

\* ---- C3 (SpecAcc)
\* C3: buffer reset.  A wrapper call with apply_updates true hands the
\* wrapped optimizer the accumulated values (old buffer + scaler * gradient),
\* not zeros, and leaves every buffer exactly zero; a call with apply_updates
\* false only adds scaler * gradient to each buffer and calls no optimizer.
BufferReset ==
    [][calls' # calls =>
         LET c == calls'[Len(calls')]
             sum(d, i) == RAdd(all_vars[d].accum[i],
                               RMul(c.grads[i], <<1, FLAGS.grad_acc_steps>>))
         IN  \A d \in Devices : \A i \in VarIdx :
                IF c.apply_updates
                THEN /\ all_vars'[d].accum[i] = Zero
                     /\ Len(all_vars'[d].params[i]) = Len(Params(d, i)) + 1
                     /\ all_vars'[d].params[i][Len(Params(d, i)) + 1].g
                            = sum(d, i)
                ELSE /\ all_vars'[d].accum[i] = sum(d, i)
                     /\ all_vars'[d].params[i] = Params(d, i)]_vars

WitnessBufferReset ==
    /\ Len(calls) = 3
    /\ ~calls[1].apply_updates
    /\ calls[2].apply_updates
    /\ ~calls[3].apply_updates
    /\ \A d \in Devices : \A i \in VarIdx :
          /\ Len(Params(d, i)) = 1
          /\ Params(d, i)[1].g # Zero
          /\ all_vars[d].accum[i] = RMul(calls[3].grads[i], scaler)

\* ---- C2 (Spec)
Running == pc \in {"train", "done"}

\* C2: with grad_acc_steps = k > 1 the wrapped optimizer has updated every
\* parameter exactly floor(n / k) times once virtual steps 1..n have run:
\* the update count grows exactly at the steps s with s mod k = 0.
UpdatesEveryKMicrobatches ==
    (Running /\ FLAGS.grad_acc_steps > 1) =>
        \A d \in Devices : \A i \in VarIdx :
            Len(Params(d, i)) = cur_step \div FLAGS.grad_acc_steps

WitnessUpdatesEveryKMicrobatches ==
    /\ pc = "train"
    /\ start_step = 0
    /\ FLAGS.grad_acc_steps = 3
    /\ cur_step = 5
    /\ \A d \in Devices : \A i \in VarIdx : Len(Params(d, i)) = 1

\* ---- C4 (Spec)
\* the virtual step just run and the one before it, both run by this process
\* (monitors is empty until the process has run a train step), feed the same
\* accumulated update
SameUpdateStep ==
    /\ pc = "train" /\ pc' = "train"
    /\ monitors # <<>>
    /\ cur_step' = cur_step + 1
    /\ (cur_step' - 1) \div FLAGS.grad_acc_steps
           = (cur_step - 1) \div FLAGS.grad_acc_steps

\* C4: the fractional epoch of a virtual step is the next multiple of
\* grad_acc_steps at or after it, divided by steps_per_epoch, so two virtual
\* steps that feed the same accumulated update get the same fractional epoch
\* and the same learning rate.
SameEpochWithinUpdate ==
    [][(SameUpdateStep =>
            /\ cur_epoch' = cur_epoch
            /\ monitors'[1].epoch = monitors[1].epoch
            /\ monitors'[1].learning_rate = monitors[1].learning_rate)
       /\ ((pc' = "train" /\ cur_step' = cur_step + 1 /\ monitors' # <<>>) =>
            \E m \in 1..(cur_step' + FLAGS.grad_acc_steps) :
               /\ m % FLAGS.grad_acc_steps = 0
               /\ m >= cur_step' /\ m - FLAGS.grad_acc_steps < cur_step'
               /\ cur_epoch' = Rat(m * total_batch_size,
                                   train_split.num_examples))]_vars

WitnessSameEpochWithinUpdate ==
    /\ pc = "train"
    /\ FLAGS.grad_acc_steps = 3
    /\ cur_step = 3
    /\ start_step = 0
    /\ monitors # <<>>
    /\ monitors[1].epoch = cur_epoch
    /\ monitors[1].learning_rate # Zero
    /\ \A d \in Devices : Len(Params(d, 1)) = 1

\* ---- C5 (Spec)
TrainStepDone == pc' = "train" /\ cur_step' = cur_step + 1 /\ monitors' # <<>>

\* C5 as stated: over a run the fractional epoch never decreases and never
\* exceeds num_train_epochs
EpochMonotoneAndClamped ==
    [][TrainStepDone =>
          /\ RLeq(cur_epoch, cur_epoch')
          /\ RLeq(cur_epoch', FLAGS.num_train_epochs)]_vars

\* C5 as amended: over a run the fractional epoch never decreases; it is not
\* clamped itself (train_op reports it as it is), only learning_rate clamps
\* its own copy, so a step dated past num_train_epochs gets the learning
\* rate of num_train_epochs.
EpochMonotoneLrClamped ==
    [][TrainStepDone =>
          /\ RLeq(cur_epoch, cur_epoch')
          /\ monitors'[1].epoch = cur_epoch'
          /\ RLess(FLAGS.num_train_epochs, cur_epoch') =>
                monitors'[1].learning_rate
                    = RMul(base_learning_rate,
                           lr_multiplier(FLAGS.num_train_epochs))]_vars

WitnessEpochMonotoneLrClamped ==
    /\ pc = "train"
    /\ monitors # <<>>
    /\ RLess(FLAGS.num_train_epochs, monitors[1].epoch)
    /\ cur_step > total_train_steps
    /\ FLAGS.lr_schedule = "cos"
    /\ monitors[1].learning_rate = Zero

\* ---- C6 (Spec)
\* C6: gradients are mean-reduced across the devices before the optimizer or
\* the accumulator sees them, so at every point of the run all devices hold
\* the same parameters, optimizer state and accumulation buffers, whatever
\* gradients each device computed.
ReplicasNeverDiverge ==
    \A d1, d2 \in Devices : all_vars[d1] = all_vars[d2]

\* two devices computed different gradients (their mean 0 for the first
\* variable is no device's own gradient) and the update was applied
WitnessReplicasNeverDiverge ==
    /\ pc = "train"
    /\ FLAGS.grad_acc_steps = 1
    /\ \A d \in Devices :
          /\ Len(Params(d, 1)) = 2
          /\ Params(d, 1)[1].g = Zero
          /\ Params(d, 1)[2].g = One

\* ---- C7 (Spec)
\* C7 as stated: for every grad_acc_steps >= 1, between two consecutive
\* evaluations exactly eval_every_n_steps updates were applied
EvalEveryNUpdates ==
    \A j \in 1..(Len(evals) - 1) :
        evals[j + 1].updates - evals[j].updates = FLAGS.eval_every_n_steps

\* C7 as amended: evaluation (and, unless DP is disabled, the epsilon request)
\* runs once every eval_every_n_steps virtual steps; an evaluation at virtual
\* step s has seen floor(s / grad_acc_steps) applied updates, which is also
\* the step count given to the accountant, so exactly eval_every_n_steps
\* updates lie between two evaluations only when grad_acc_steps = 1.
EvalEveryNVirtualSteps ==
    /\ \A j \in 1..Len(evals) :
          /\ evals[j].step = start_step + j * FLAGS.eval_every_n_steps
          /\ evals[j].updates = evals[j].step \div FLAGS.grad_acc_steps
          /\ evals[j].dp_steps = IF FLAGS.disable_dp THEN <<>>
                                 ELSE <<evals[j].updates>>
    /\ FLAGS.grad_acc_steps = 1 => EvalEveryNUpdates

WitnessEvalEveryNVirtualSteps ==
    /\ Len(evals) = 2
    /\ FLAGS.grad_acc_steps = 2
    /\ FLAGS.eval_every_n_steps = 3
    /\ evals[1].updates = 1
    /\ evals[2].updates = 3
    /\ evals[2].dp_steps = <<3>>

\* ---- C8 (Spec)
UpdateSlots ==
    UNION {{<<i, j>> : j \in 1..Len(HostVars.params[i])} : i \in VarIdx}

\* C8 as stated: across checkpoint save and restore no noise subkey is drawn
\* twice, and the key the optimizer holds is not one whose subkey was drawn
\* before
ResumeContinuesRngStream ==
    Running =>
        /\ \A a, b \in UpdateSlots :
              a # b => HostVars.params[a[1]][a[2]].subkey
                           # HostVars.params[b[1]][b[2]].subkey
        /\ \A a \in UpdateSlots :
              HostVars.params[a[1]][a[2]].subkey # split(rng).subkey

\* ---- C9 (Spec)
\* C9 as stated: with an unsupported lr_schedule the Experiment is never
\* constructed, and no train step is attempted
UnsupportedScheduleFailsConstruction ==
    FLAGS.lr_schedule \notin SupportedSchedules =>
        /\ pc \in {"new", "error"}
        /\ cur_step = 0

\* ---- C10 (SpecLR)
LrOf == monitors[1].learning_rate
EpochOf == monitors[1].epoch

\* C10 as stated: for both schedules and every lr_warmup_epochs in
\* [0, num_train_epochs): learning_rate(lr_warmup_epochs) = base_learning_rate,
\* learning_rate(0) = 0 and, for 'cos', learning_rate(num_train_epochs) = 0
ScheduleContinuity ==
    monitors # <<>> =>
        /\ EpochOf = FLAGS.lr_warmup_epochs => LrOf = base_learning_rate
        /\ EpochOf = Zero => LrOf = Zero
        /\ (FLAGS.lr_schedule = "cos" /\ EpochOf = FLAGS.num_train_epochs)
               => LrOf = Zero

\* C10 as amended: learning_rate(0) = 0 needs lr_warmup_epochs > 0; with
\* lr_warmup_epochs = 0 there is no warmup and learning_rate(0) is
\* base_learning_rate.  The rest is as stated.
ScheduleContinuityWithWarmup ==
    monitors # <<>> =>
        /\ EpochOf = FLAGS.lr_warmup_epochs => LrOf = base_learning_rate
        /\ EpochOf = Zero =>
              LrOf = IF FLAGS.lr_warmup_epochs = Zero
                     THEN base_learning_rate ELSE Zero
        /\ (FLAGS.lr_schedule = "cos" /\ EpochOf = FLAGS.num_train_epochs)
               => LrOf = Zero

WitnessScheduleContinuityWithWarmup ==
    /\ monitors # <<>>
    /\ FLAGS.lr_schedule = "cos"
    /\ FLAGS.lr_warmup_epochs = <<3, 2>>
    /\ FLAGS.num_train_epochs = RInt(2)
    /\ EpochOf = FLAGS.num_train_epochs
    /\ LrOf = Zero

\* ============================================== CustomPreconditionedSGLD
alpha == <<19, 20>>
lambda_small == <<1, 100000000>>

\* m.value = alpha * m.value + (1 - alpha) * jn.square(g)
UpdateMomentum(m, g) ==
    RAdd(RMul(alpha, m), RMul(RSub(One, alpha), RMul(g, g)))

\* jn.reciprocal(jn.sqrt(m) + lambda_small), kept symbolically by the m it is
\* computed from (the map is one-to-one on m >= 0)
Velocity(m) == [sqrt_of |-> m, plus |-> lambda_small]

PSGLDVarStale(m, g) ==
    [m |-> UpdateMomentum(m, g), velocity |-> Velocity(m)]

\* lines 161-162 for one variable: the moving average is updated first, the
\* velocity is computed from the m.value just assigned
PSGLDVar(m, g) ==
    LET m1 == UpdateMomentum(m, g)
    IN  [m |-> m1, velocity |-> Velocity(m1)]

\* One call of the optimizer on one replica's variables v with the stream key
\* `key`: for each (g, p, m) in order.  An update of p is kept as
\* (step_size, g, subkey, velocity), which determines
\* p -= N*velocity*step_size*g + normal(subkey)*sqrt(2*step_size*velocity).
RECURSIVE PSGLDLoop(_, _, _, _, _, _)
PSGLDLoop(i, params, momentum_vars, key, step_size, gs) ==
    IF i > Len(gs)
    THEN [params |-> params, momentum_vars |-> momentum_vars, rng |-> key]
    ELSE LET r == PSGLDVar(momentum_vars[i], gs[i])
         IN  PSGLDLoop(i + 1,
                       [params EXCEPT ![i] =
                           Append(@, [step_size |-> step_size, g |-> gs[i],
                                      subkey |-> split(key).subkey,
                                      velocity |-> r.velocity])],
                       [momentum_vars EXCEPT ![i] = r.m],
                       split(key).new_key, step_size, gs)

CustomPreconditionedSGLD(v, key, step_size, gs) ==
    LET r == PSGLDLoop(1, v.params, v.momentum_vars, key, step_size, gs)
    IN  [params |-> r.params, momentum_vars |-> r.momentum_vars,
         rng |-> r.rng]

\* ------------------------------------------ the PSGLD optimizer on its own
\* gradient lists handed to the optimizer in its unit harness
PsgldGradInputs == [VarIdx -> {RInt(-1), Zero, RInt(2)}]

FreshPsgldVars ==
    [d \in Devices |->
        [params |-> [i \in VarIdx |-> <<>>], momentum_vars |-> ZeroBuffers]]

InitPSGLD ==
    /\ FLAGS = [DefaultFlags EXCEPT !.optimizer = "psgld"]
    /\ train_split = [num_examples |-> 384]
    /\ pc = "psgld"
    /\ all_vars = FreshPsgldVars
    /\ rng = key42
    /\ start_step = 0
    /\ big_step = 0
    /\ cur_step = 0
    /\ cur_epoch = Zero
    /\ monitors = <<>>
    /\ checkpoint = <<>>
    /\ evals = <<>>
    /\ calls = <<>>

PSGLDCall ==
    /\ pc = "psgld"
    /\ Len(calls) < MaxCalls
    /\ \E gs \in PsgldGradInputs :
          LET out == [d \in Devices |->
                         CustomPreconditionedSGLD(all_vars[d], rng,
                                                  base_learning_rate, gs)]
          IN  /\ all_vars' = [d \in Devices |->
                                 [params |-> out[d].params,
                                  momentum_vars |-> out[d].momentum_vars]]
              /\ rng' = out[CHOOSE d \in Devices : TRUE].rng
              /\ calls' = Append(calls, [grads |-> gs, apply_updates |-> TRUE])
    /\ UNCHANGED <<FLAGS, train_split, pc, start_step, big_step, cur_step,
                   cur_epoch, monitors, checkpoint, evals>>

SpecPSGLD == InitPSGLD /\ [][PSGLDCall]_vars

\* ---- C11 (SpecPSGLD)
FirstGradNonZero(i) == Len(calls) >= 1 /\ calls[1].grads[i] # Zero

\* C11 as stated: with m initialised to 0 and a non-zero gradient, the
\* velocity of the first update is 1 / (sqrt(0) + lambda): it is computed
\* from the initial m, not from the m already updated with the first gradient
FirstVelocityFromInitialMomentum ==
    \A d \in Devices : \A i \in VarIdx :
        FirstGradNonZero(i) =>
            Params(d, i)[1].velocity = [sqrt_of |-> Zero, plus |-> lambda_small]

\* C11 as amended: with m initialised to 0 and a non-zero gradient g, the
\* velocity of the first update is 1 / (sqrt((1 - alpha) * g^2) + lambda):
\* it is computed from the m already updated with the first gradient, which
\* is positive, so the denominator exceeds lambda.
FirstVelocityFromUpdatedMomentum ==
    \A d \in Devices : \A i \in VarIdx :
        FirstGradNonZero(i) =>
            LET g == calls[1].grads[i]
                v == Params(d, i)[1].velocity
            IN  /\ v.sqrt_of = RMul(<<1, 20>>, RMul(g, g))
                /\ RLess(Zero, v.sqrt_of)
                /\ v.plus = <<1, 100000000>>

WitnessFirstVelocityFromUpdatedMomentum ==
    /\ Len(calls) = 2
    /\ calls[1].grads = <<RInt(2), RInt(-1)>>
    /\ \A d \in Devices :
          /\ Params(d, 1)[1].velocity.sqrt_of = <<1, 5>>
          /\ Params(d, 2)[1].velocity.sqrt_of = <<1, 20>>
          /\ all_vars[d].momentum_vars[1] # Zero

\* ---- C12 (Spec)
Saved == checkpoint # <<>> /\ FLAGS.grad_acc_steps >= 1

\* the run has just been resumed from the checkpoint
JustResumed == pc = "train" /\ start_step > 0 /\ cur_step = start_step

\* C12 as stated: every checkpoint save, hence every resume step, is at a
\* virtual step that is a multiple of grad_acc_steps, and the accumulation
\* buffers are all zero at each checkpoint save and at each resume
CheckpointAtUpdateBoundary ==
    /\ Saved =>
          /\ checkpoint[1].step % FLAGS.grad_acc_steps = 0
          /\ FLAGS.grad_acc_steps > 1 => checkpoint[1].vars.accum = ZeroBuffers
    /\ (JustResumed /\ FLAGS.grad_acc_steps > 1) =>
          /\ start_step % FLAGS.grad_acc_steps = 0
          /\ HostVars.accum = ZeroBuffers

\* C12 as amended: every checkpoint save, hence every resume step, is at a
\* positive multiple of eval_every_n_steps, which need not be a multiple of
\* grad_acc_steps.  The checkpoint holds step \div grad_acc_steps updates of
\* each parameter together with the accumulation buffers, which are zero
\* when the step is a multiple of grad_acc_steps; a resume starts at the
\* saved step with exactly the saved parameters and buffers.
CheckpointAtEvalBoundary ==
    /\ Saved =>
          /\ checkpoint[1].step > 0
          /\ checkpoint[1].step % FLAGS.eval_every_n_steps = 0
          /\ \A i \in VarIdx :
                Len(checkpoint[1].vars.params[i])
                    = checkpoint[1].step \div FLAGS.grad_acc_steps
          /\ (FLAGS.grad_acc_steps > 1
                /\ checkpoint[1].step % FLAGS.grad_acc_steps = 0)
                => checkpoint[1].vars.accum = ZeroBuffers
    /\ JustResumed =>
          /\ Saved
          /\ start_step = checkpoint[1].step
          /\ \A d \in Devices : all_vars[d] = checkpoint[1].vars

WitnessCheckpointAtEvalBoundary ==
    /\ JustResumed
    /\ FLAGS.grad_acc_steps = 2
    /\ FLAGS.eval_every_n_steps = 1
    /\ start_step = 1
    /\ checkpoint[1].step = 1
    /\ HostVars.accum # ZeroBuffers
    /\ HostVars.accum = checkpoint[1].vars.accum

====
